---------------------------- MODULE Spec2Model ----------------------------
(***************************************************************************)
(* Model of the report-context pipeline of src/final.py: DataFormatter,    *)
(* ExcelParser and ContextBuilder.                                         *)
(*                                                                         *)
(* Text.  A Python str is modelled as a sequence of characters, each       *)
(* character a TLA+ string.  An ASCII character stands for itself; a CJK   *)
(* character is written as its pinyin syllable with the tone number        *)
(* ("gai3" is 改), so that `k in s`, lower(), upper() and strip() are      *)
(* computed character by character as Python computes them.               *)
(***************************************************************************)
EXTENDS Integers, Sequences, FiniteSets, TLC

(***************************************************************************)
(* Bounds of the model.                                                    *)
(***************************************************************************)
\* sheets of a workbook besides the leading variable sheet
MaxSheets == 3
\* calls of build() on one ContextBuilder
MaxBuilds == 2

\* sheets besides the variable sheet in a workbook that is built repeatedly
\* or next to another request
MaxSmallSheets == 2

(***************************************************************************)
(* Python str primitives.                                                  *)
(***************************************************************************)
UpperLetters ==
  <<"A","B","C","D","E","F","G","H","I","J","K","L","M",
    "N","O","P","Q","R","S","T","U","V","W","X","Y","Z">>

LowerLetters ==
  <<"a","b","c","d","e","f","g","h","i","j","k","l","m",
    "n","o","p","q","r","s","t","u","v","w","x","y","z">>

\* the lower-case letter of each upper-case letter, and the converse
LowerOf ==
  [c \in {UpperLetters[i] : i \in 1..Len(UpperLetters)} |->
     LowerLetters[CHOOSE i \in 1..Len(UpperLetters) : UpperLetters[i] = c]]

UpperOf ==
  [c \in {LowerLetters[i] : i \in 1..Len(LowerLetters)} |->
     UpperLetters[CHOOSE i \in 1..Len(LowerLetters) : LowerLetters[i] = c]]

\* str.lower() on one character
LowerChar(c) == IF c \in DOMAIN LowerOf THEN LowerOf[c] ELSE c

\* str.upper() on one character
UpperChar(c) == IF c \in DOMAIN UpperOf THEN UpperOf[c] ELSE c

Lower(s) == [i \in 1..Len(s) |-> LowerChar(s[i])]

Upper(s) == [i \in 1..Len(s) |-> UpperChar(s[i])]

\* k in s
Contains(s, k) ==
  \E i \in 1..(Len(s) - Len(k) + 1) : SubSeq(s, i, i + Len(k) - 1) = k

\* s.startswith(k)
StartsWith(s, k) == Len(s) >= Len(k) /\ SubSeq(s, 1, Len(k)) = k

\* s.strip()
Strip(s) ==
  LET nonSp == {i \in 1..Len(s) : s[i] # " "}
  IN  IF nonSp = {} THEN <<>>
      ELSE SubSeq(s, CHOOSE i \in nonSp : \A j \in nonSp : i <= j,
                     CHOOSE i \in nonSp : \A j \in nonSp : i >= j)

\* s.replace(c, "") for a one-character c
RECURSIVE RemoveChar(_, _)
RemoveChar(s, c) ==
  IF s = <<>> THEN <<>>
  ELSE IF Head(s) = c THEN RemoveChar(Tail(s), c)
       ELSE <<Head(s)>> \o RemoveChar(Tail(s), c)

\* s.split(c) for a one-character c
RECURSIVE Split(_, _)
Split(s, c) ==
  IF \A i \in 1..Len(s) : s[i] # c THEN <<s>>
  ELSE LET p == CHOOSE i \in 1..Len(s) : s[i] = c /\ \A j \in 1..(i-1) : s[j] # c
       IN  <<SubSeq(s, 1, p - 1)>> \o Split(SubSeq(s, p + 1, Len(s)), c)

Digits == <<"0","1","2","3","4","5","6","7","8","9">>

DigitValue == [c \in {Digits[i] : i \in 1..Len(Digits)} |->
                 (CHOOSE i \in 1..Len(Digits) : Digits[i] = c) - 1]

IsDigit(c) == c \in DOMAIN DigitValue

DigitVal(c) == DigitValue[c]

\* str(n) for an int n >= 0
RECURSIVE IntToText(_)
IntToText(n) ==
  IF n < 10 THEN <<Digits[n + 1]>>
  ELSE IntToText(n \div 10) \o <<Digits[(n % 10) + 1]>>

\* the value of a non-empty string of digits
RECURSIVE DigitsToInt(_)
DigitsToInt(s) ==
  IF s = <<>> THEN 0
  ELSE 10 * DigitsToInt(SubSeq(s, 1, Len(s) - 1)) + DigitVal(s[Len(s)])

\* a missing cell (pandas NaN), distinct from every text
NaN == <<"<NaN>">>

\* pd.isna(val)
IsNa(val) == val = NaN


(***************************************************************************)
(* AppConfig: the static keyword tables.                                   *)
(***************************************************************************)
\* FORMAT_RULES["decimal_2"]["keywords"]
Decimal2Keywords ==
  << <<"_","r","a","t","e">>, <<"e","l","e","c","_">>,
     <<"n","e","w","_","c","o","p","_","s","t","d">>,
     <<"n","e","w","_","e","f","f","_","s","t","d">> >>

\* FORMAT_RULES["decimal_1"]["keywords"]
Decimal1Keywords == << <<"_","y","e","a","r">> >>

\* TABLE_INCLUDE_KEYWORDS
TABLE_INCLUDE_KEYWORDS ==
  << <<"k","w","h">>, <<"e","l","e","c","o","s","t">>,
     <<"e","l","e","c","c","o","s","t","p","e","r","k","w","h">> >>

\* TARGET_NAMES: 名稱, name, 設備名稱
TARGET_NAMES ==
  << <<"ming2","cheng1">>, <<"n","a","m","e">>,
     <<"she4","bei4","ming2","cheng1">> >>

\* TARGET_NOS: no, 編號, 設備編號, 冰水主機代號
TARGET_NOS ==
  << <<"n","o">>, <<"bian1","hao4">>, <<"she4","bei4","bian1","hao4">>,
     <<"bing1","shui3","zhu3","ji1","dai4","hao4">> >>

\* SORT_WEIGHTS, in the dict's insertion order: chiller, 主機, pump, 泵, tower, 水塔
SORT_WEIGHTS ==
  << [key |-> <<"c","h","i","l","l","e","r">>, weight |-> 1],
     [key |-> <<"zhu3","ji1">>,                weight |-> 1],
     [key |-> <<"p","u","m","p">>,             weight |-> 2],
     [key |-> <<"beng4">>,                     weight |-> 2],
     [key |-> <<"t","o","w","e","r">>,         weight |-> 3],
     [key |-> <<"shui3","ta3">>,               weight |-> 3] >>

\* any(k in s for k in kws)
AnyIn(kws, s) == \E i \in 1..Len(kws) : Contains(s, kws[i])

(***************************************************************************)
(* DataFormatter.                                                          *)
(***************************************************************************)
\* the texts clean_text maps to "": nan, none, nat and the empty string
BlankWords == { <<"n","a","n">>, <<"n","o","n","e">>, <<"n","a","t">>, <<>> }

clean_text(val) ==
  IF IsNa(val) THEN <<>>
  ELSE LET s == Strip(val)
       IN  IF Lower(s) \in BlankWords THEN <<>> ELSE s

(***************************************************************************)
(* float(s) on a stripped text.  The model covers an optional sign         *)
(* followed by decimal digits with at most one point, and the words inf    *)
(* and infinity; exponents and digit-group underscores are not modelled    *)
(* and the value pools hold none.  A parsed value is kept exactly, as      *)
(* neg, the integer num and scale with |value| = num / 10^scale.           *)
(***************************************************************************)
InfWords == { <<"i","n","f">>, <<"i","n","f","i","n","i","t","y">> }

ParseFloat(s) ==
  LET signed == s # <<>> /\ s[1] \in {"+", "-"}
      neg    == s # <<>> /\ s[1] = "-"
      body   == IF signed THEN Tail(s) ELSE s
      points == {i \in 1..Len(body) : body[i] = "."}
      shape  == /\ \A i \in 1..Len(body) : IsDigit(body[i]) \/ body[i] = "."
                /\ Cardinality(points) <= 1
                /\ \E i \in 1..Len(body) : IsDigit(body[i])
      digs   == RemoveChar(body, ".")
      scale  == IF points = {} THEN 0
                ELSE Len(body) - (CHOOSE i \in points : TRUE)
  IN  IF Lower(body) \in InfWords
      THEN [ok |-> TRUE, inf |-> TRUE, neg |-> neg, num |-> 0, scale |-> 0]
      ELSE IF shape
      THEN [ok |-> TRUE, inf |-> FALSE, neg |-> neg,
            num |-> DigitsToInt(digs), scale |-> scale]
      ELSE [ok |-> FALSE, inf |-> FALSE, neg |-> FALSE, num |-> 0, scale |-> 0]

\* int(s) on a text: an optional sign and at least one digit
ParseInt(s) ==
  LET signed == s # <<>> /\ s[1] \in {"+", "-"}
      body   == IF signed THEN Tail(s) ELSE s
  IN  IF body # <<>> /\ \A i \in 1..Len(body) : IsDigit(body[i])
      THEN [ok |-> TRUE, neg |-> (s[1] = "-" /\ DigitsToInt(body) # 0),
            num |-> DigitsToInt(body)]
      ELSE [ok |-> FALSE, neg |-> FALSE, num |-> 0]

RECURSIVE Pow10(_)
Pow10(n) == IF n = 0 THEN 1 ELSE 10 * Pow10(n - 1)

\* the "," of a format spec: the digits of n >= 0 in groups of three
RECURSIVE Grouped(_)
Grouped(n) ==
  IF n < 1000 THEN IntToText(n)
  ELSE LET r == IntToText(n % 1000)
           pad == IF Len(r) = 1 THEN <<"0","0">>
                  ELSE IF Len(r) = 2 THEN <<"0">> ELSE <<>>
       IN  Grouped(n \div 1000) \o <<",">> \o pad \o r

\* digits of n left-padded with zeros to width w
ZeroPad(n, w) ==
  LET r == IntToText(n)
  IN  [i \in 1..(w - Len(r)) |-> "0"] \o r

(***************************************************************************)
(* f"{x:,.{d}f}" for a parsed x.  The decimal value is rounded to d        *)
(* places, a tie going to the even neighbour; the binary double decides a  *)
(* tie this way exactly when the decimal is a dyadic rational (x.5 for     *)
(* d = 0, x.25 and x.75 for d = 1, x.125 ... for d = 2).                   *)
(***************************************************************************)
FormatFixed(x, d) ==
  IF x.inf THEN (IF x.neg THEN <<"-">> ELSE <<>>) \o <<"i","n","f">>
  ELSE
    LET q == IF x.scale <= d
             THEN x.num * Pow10(d - x.scale)
             ELSE LET den  == Pow10(x.scale - d)
                      fl   == x.num \div den
                      rem2 == 2 * (x.num % den)
                  IN  IF rem2 > den \/ (rem2 = den /\ fl % 2 = 1)
                      THEN fl + 1 ELSE fl
        ip == q \div Pow10(d)
        fp == q % Pow10(d)
    IN  (IF x.neg THEN <<"-">> ELSE <<>>) \o Grouped(ip)
        \o (IF d = 0 THEN <<>> ELSE <<".">> \o ZeroPad(fp, d))

\* f"{n:,}" for an int given as neg and magnitude
FormatInt(neg, n) == (IF neg THEN <<"-">> ELSE <<>>) \o Grouped(n)

\* the substrings that make format_variable_value return the text as it is
NonNumericMarkers ==
  << <<"~">>, <<"C","H">>, <<"C","W","P">>, <<"H","P">>, <<"/">>,
     <<"N","e","w">>, <<"n","e","w">> >>

\* the result of a call: a returned text, or the exception that escapes it
Returned(v) == [exc |-> "none", val |-> v]

Raised(e) == [exc |-> e, val |-> <<>>]

format_variable_value(val, key_name) ==
  LET val_str   == clean_text(val)
      x         == ParseFloat(val_str)
      key_lower == Lower(key_name)
  IN  IF val_str = <<>> THEN Returned(<<>>)
      ELSE IF AnyIn(NonNumericMarkers, val_str) THEN Returned(val_str)
      ELSE IF ~x.ok THEN Returned(val_str)     \* float() raises ValueError
      ELSE IF StartsWith(key_lower, <<"m","e","_">>)
      THEN IF Contains(val_str, <<".">>)
           THEN LET parts == Split(val_str, ".")
                    n     == ParseInt(parts[1])
                IN  IF n.ok
                    THEN Returned(FormatInt(n.neg, n.num) \o <<".">> \o parts[2])
                    ELSE Returned(val_str)     \* int() raises ValueError
           ELSE IF x.inf THEN Raised("OverflowError")  \* int(float("inf"))
                ELSE Returned(FormatInt(x.neg /\ x.num # 0, x.num))
      ELSE IF AnyIn(Decimal2Keywords, key_lower) THEN Returned(FormatFixed(x, 2))
      ELSE IF AnyIn(Decimal1Keywords, key_lower) THEN Returned(FormatFixed(x, 1))
      ELSE Returned(FormatFixed(x, 0))

format_table_value(val, col_name) ==
  LET val_str       == clean_text(val)
      col_lower     == Lower(col_name)
      is_target_col == AnyIn(TABLE_INCLUDE_KEYWORDS, col_lower)
      f_val         == ParseFloat(RemoveChar(val_str, ","))
      is_integer    == ~f_val.inf /\ f_val.num % Pow10(f_val.scale) = 0
  IN  IF val_str = <<>> THEN <<>>
      ELSE IF ~is_target_col THEN val_str
      ELSE IF ~f_val.ok THEN val_str           \* float() raises ValueError
      ELSE IF is_integer
           THEN FormatInt(f_val.neg /\ f_val.num # 0,
                          f_val.num \div Pow10(f_val.scale))
           ELSE FormatFixed(f_val, 2)


(***************************************************************************)
(* ExcelParser.  A sheet of the workbook is a grid: a sequence of rows of  *)
(* equal width, each cell a text or NaN (an empty cell read with           *)
(* dtype=str).  pd.read_excel(header=h) makes row h the column names and   *)
(* the rows after it the data; header texts of one grid are distinct.      *)
(***************************************************************************)
\* nrows=20 of the preview read
HeaderScanRows == 20

\* the reserved record keys 'name' and 'no'
KeyName == <<"n","a","m","e">>

KeyNo == <<"n","o">>

\* [x.lower() for x in kws]
LowerAll(kws) == [i \in 1..Len(kws) |-> Lower(kws[i])]

\* pd.notna(x) and str(x).strip() != ""
NonBlankCell(x) == ~IsNa(x) /\ Strip(x) # <<>>

\* " ".join(texts)
RECURSIVE JoinSpace(_)
JoinSpace(texts) ==
  IF texts = <<>> THEN <<>>
  ELSE IF Len(texts) = 1 THEN texts[1]
  ELSE texts[1] \o <<" ">> \o JoinSpace(Tail(texts))

\* the subsequence of seq at the indices in S, from index i on
RECURSIVE SelectFrom(_, _, _)
SelectFrom(seq, S, i) ==
  IF i > Len(seq) THEN <<>>
  ELSE (IF i \in S THEN <<seq[i]>> ELSE <<>>) \o SelectFrom(seq, S, i + 1)

\* [x for i, x in enumerate(seq) if i in S]
Select(seq, S) == SelectFrom(seq, S, 1)

\* row_str of _find_header_row
RowStr(row) ==
  LET keep(i) == NonBlankCell(row[i])
      cells   == Select(row, {i \in 1..Len(row) : keep(i)})
  IN  JoinSpace([i \in 1..Len(cells) |-> Lower(Strip(cells[i]))])

\* target_names and target_nos of lines 131-132 and 181-182
target_names == LowerAll(TARGET_NAMES)

target_nos == LowerAll(TARGET_NOS)

\* the least element of a non-empty set of indices
Least(S) == CHOOSE i \in S : \A j \in S : i <= j

\* _find_header_row: row is the 1-based index of the header row, 0 for none
find_header_row(df_preview) ==
  LET rows     == 1..Len(df_preview)
      row_str  == [i \in rows |-> RowStr(df_preview[i])]
      equip    == {i \in rows : /\ AnyIn(target_names, row_str[i])
                                 /\ AnyIn(target_nos, row_str[i])}
      nonEmpty == {i \in rows :
                     \E j \in 1..Len(df_preview[i]) : NonBlankCell(df_preview[i][j])}
  IN  IF equip # {} THEN [row |-> Least(equip), type |-> "equipment"]
      ELSE IF nonEmpty # {} THEN [row |-> Least(nonEmpty), type |-> "general"]
      ELSE [row |-> 0, type |-> "none"]

Unnamed == <<"U","n","n","a","m","e","d">>

(***************************************************************************)
(* The frame parse_sheet hands on (lines 160-163): cols are the kept       *)
(* columns, each with its stripped name and its index in the grid, rows    *)
(* the data rows.  An empty header cell is named "Unnamed: k" by pandas    *)
(* and dropped with every name starting so; a column whose data cells are  *)
(* all NaN is dropped.                                                     *)
(***************************************************************************)
ReadFrame(grid, header_row) ==
  LET header == grid[header_row]
      data   == SubSeq(grid, header_row + 1, Len(grid))
      keep(j) == /\ ~IsNa(header[j])
                 /\ ~StartsWith(header[j], Unnamed)
                 /\ \E r \in 1..Len(data) : ~IsNa(data[r][j])
      idx    == Select([j \in 1..Len(header) |-> j], {j \in 1..Len(header) : keep(j)})
  IN  [cols |-> [k \in 1..Len(idx) |-> [name |-> Strip(header[idx[k]]), at |-> idx[k]]],
       rows |-> data]

ColNames(df) == {df.cols[k].name : k \in 1..Len(df.cols)}

\* row[col]
Cell(df, row, col) ==
  row[df.cols[CHOOSE k \in 1..Len(df.cols) : df.cols[k].name = col].at]

\* _process_general_table
process_general_table(df) ==
  LET skip(r) ==
        \/ \A k \in 1..Len(df.cols) : IsNa(df.rows[r][df.cols[k].at])
        \/ \A k \in 1..Len(df.cols) :
              /\ ~IsNa(df.rows[r][df.cols[k].at])
              /\ Strip(df.rows[r][df.cols[k].at]) = <<>>
      keep(r) == ~skip(r)
      kept == Select(df.rows, {r \in 1..Len(df.rows) : keep(r)})
  IN  [i \in 1..Len(kept) |->
         [col \in ColNames(df) |-> format_table_value(Cell(df, kept[i], col), col)]]

\* the regex 名稱|Equipment|name of line 196, matched case-insensitively
HeaderLikeMarkers ==
  << <<"ming2","cheng1">>, <<"e","q","u","i","p","m","e","n","t">>,
     <<"n","a","m","e">> >>

\* col_map of _process_equipment_table: the first column matching each role
ColMap(df) ==
  LET ks    == 1..Len(df.cols)
      c_low == [k \in ks |-> Lower(df.cols[k].name)]
      names == {k \in ks : \/ \E i \in 1..Len(target_names) : target_names[i] = c_low[k]
                           \/ AnyIn(target_names, c_low[k])}
      nos   == {k \in ks : \/ \E i \in 1..Len(target_nos) : target_nos[i] = c_low[k]
                           \/ AnyIn(target_nos, c_low[k])}
  IN  [hasName |-> names # {},
       hasNo   |-> nos # {},
       name    |-> IF names # {} THEN df.cols[Least(names)].name ELSE <<>>,
       no      |-> IF nos # {} THEN df.cols[Least(nos)].name ELSE <<>>]

\* the rows of df with a name and a no that are kept (lines 195-196)
EquipmentRows(df, col_map) ==
  LET keep(r) ==
        /\ ~IsNa(Cell(df, df.rows[r], col_map.name))
        /\ ~IsNa(Cell(df, df.rows[r], col_map.no))
        /\ ~AnyIn(HeaderLikeMarkers, Lower(Cell(df, df.rows[r], col_map.name)))
  IN  Select(df.rows, {r \in 1..Len(df.rows) : keep(r)})

\* _process_equipment_table giving no record when a role is unresolved
process_equipment_table_or_nothing(df) ==
  LET col_map == ColMap(df)
      kept    == EquipmentRows(df, col_map)
  IN  IF col_map.hasName /\ col_map.hasNo
      THEN [i \in 1..Len(kept) |->
              [col \in ColNames(df) \cup {KeyName, KeyNo} |->
                 IF col = KeyName THEN clean_text(Cell(df, kept[i], col_map.name))
                 ELSE IF col = KeyNo THEN clean_text(Cell(df, kept[i], col_map.no))
                 ELSE format_table_value(Cell(df, kept[i], col), col)]]
      ELSE <<>>

\* _process_equipment_table
process_equipment_table(df) ==
  LET col_map == ColMap(df)
      kept    == EquipmentRows(df, col_map)
  IN  IF col_map.hasName /\ col_map.hasNo
      THEN [i \in 1..Len(kept) |->
              [col \in ColNames(df) \cup {KeyName, KeyNo} |->
                 IF col = KeyName THEN clean_text(Cell(df, kept[i], col_map.name))
                 ELSE IF col = KeyNo THEN clean_text(Cell(df, kept[i], col_map.no))
                 ELSE format_table_value(Cell(df, kept[i], col), col)]]
      ELSE process_general_table(df)

\* parse_sheet: the records of one sheet, [] when no header row is found
parse_sheet(grid) ==
  LET found == find_header_row(SubSeq(grid, 1,
                   IF Len(grid) < HeaderScanRows THEN Len(grid) ELSE HeaderScanRows))
      df    == ReadFrame(grid, found.row)
  IN  IF found.row = 0 THEN <<>>
      ELSE IF found.type = "equipment" THEN process_equipment_table(df)
      ELSE process_general_table(df)


(***************************************************************************)
(* ContextBuilder: the pure part.  A record (a Python dict of one row) is  *)
(* a function from key texts to texts, the context a function from key     *)
(* texts to values, a value being a scalar text or a sequence of records.  *)
(***************************************************************************)
\* {}
EmptyMap == [k \in {} |-> <<>>]

\* d[k] = v
SetKey(d, k, v) == [x \in (DOMAIN d) \cup {k} |-> IF x = k THEN v ELSE d[x]]

\* d.get(k, '')
GetText(d, k) == IF k \in DOMAIN d THEN d[k] ELSE <<>>

Scalar(t) == [kind |-> "scalar", text |-> t, rows |-> <<>>]

Table(items) == [kind |-> "table", text |-> <<>>, rows |-> items]

\* 變數
VarSheetName == <<"bian4","shu4">>

\* 改善前
BeforeMarker == <<"gai3","shan4","qian2">>

\* 改善後
AfterMarker == <<"gai3","shan4","hou4">>

\* the reserved label keys
KeyPm == <<"p","m">>

KeyEvapFm == <<"e","v","a","p","_","f","m">>

KeyEvapTOut == <<"e","v","a","p","_","t","_","o","u","t">>

KeyEvapTIn == <<"e","v","a","p","_","t","_","i","n">>

KeyCondFm == <<"c","o","n","d","_","f","m">>

KeyCondTOut == <<"c","o","n","d","_","t","_","o","u","t">>

KeyCondTIn == <<"c","o","n","d","_","t","_","i","n">>

\* f"PM{n}", f"FM{n}", f"T{n}"
PM(n) == <<"P","M">> \o IntToText(n)

FM(n) == <<"F","M">> \o IntToText(n)

T(n) == <<"T">> \o IntToText(n)

\* the suffixes _冰水, _冷卻, _區域, _其他 of the composite keys
SuffixIce == <<"_","bing1","shui3">>

SuffixCool == <<"_","leng3","que4">>

SuffixZone == <<"_","qu1","yu4">>

SuffixOther == <<"_","qi2","ta1">>

\* self.counters of __init__
InitialCounters == [pm |-> 1, fm |-> 1, t |-> 1]

\* sheet_names of the workbook
SheetNames(xlsx) == {xlsx[i].name : i \in 1..Len(xlsx)}

\* the sheet _load_variables reads: 變數 if there is one, else the first sheet
VariableSheet(xlsx) ==
  IF VarSheetName \in SheetNames(xlsx)
  THEN xlsx[CHOOSE i \in 1..Len(xlsx) : xlsx[i].name = VarSheetName]
  ELSE xlsx[1]

\* the rows of df_var at which the loop body of _load_variables raises
FailingRows(df_var) ==
  {i \in 1..Len(df_var) :
     /\ ~IsNa(df_var[i][1])
     /\ format_variable_value(IF Len(df_var[i]) > 1 THEN df_var[i][2] ELSE <<>>,
                              Strip(df_var[i][1])).exc # "none"}

\* whether _load_variables ends in its except clause
LoadFails(xlsx) == FailingRows(VariableSheet(xlsx).grid) # {}

\* a load that writes no key at all when some row from i on fails
RECURSIVE LoadRowsAllOrNothing(_, _, _)
LoadRowsAllOrNothing(ctx, df_var, i) ==
  IF i > Len(df_var) \/ \E j \in FailingRows(df_var) : j >= i THEN ctx
  ELSE LET row == df_var[i]
           key == Strip(row[1])
           val == IF Len(row) > 1 THEN row[2] ELSE <<>>
           res == format_variable_value(val, key)
       IN  IF IsNa(row[1]) THEN LoadRowsAllOrNothing(ctx, df_var, i + 1)
           ELSE LoadRowsAllOrNothing(SetKey(ctx, key, Scalar(res.val)), df_var, i + 1)

(***************************************************************************)
(* The loop of _load_variables from row i on.  A row whose first cell is   *)
(* NaN is skipped; an exception escaping format_variable_value ends the    *)
(* loop in the except clause, which logs and returns: the keys written     *)
(* before it stay in the context.                                          *)
(***************************************************************************)
RECURSIVE LoadRows(_, _, _)
LoadRows(ctx, df_var, i) ==
  IF i > Len(df_var) THEN ctx
  ELSE LET row == df_var[i]
           key == Strip(row[1])
           val == IF Len(row) > 1 THEN row[2] ELSE <<>>
           res == format_variable_value(val, key)
       IN  IF IsNa(row[1]) THEN LoadRows(ctx, df_var, i + 1)
           ELSE IF res.exc # "none" THEN ctx
           ELSE LoadRows(SetKey(ctx, key, Scalar(res.val)), df_var, i + 1)

\* _load_variables
load_variables(ctx, xlsx) == LoadRows(ctx, VariableSheet(xlsx).grid, 1)

\* _get_sort_weight
get_sort_weight(name) ==
  LET name_lower == Lower(name)
      hits == {i \in 1..Len(SORT_WEIGHTS) : Contains(name_lower, SORT_WEIGHTS[i].key)}
  IN  IF hits = {} THEN 4 ELSE SORT_WEIGHTS[Least(hits)].weight

\* _is_pump_sheet: "泵" in sheet_name or "pump" in sheet_name.lower()
is_pump_sheet(sheet_name) ==
  \/ Contains(sheet_name, <<"beng4">>)
  \/ Contains(Lower(sheet_name), <<"p","u","m","p">>)

\* the test of line 326: 主機, chiller or 冰水機 in sheet_name.lower()
ChillerKeywords ==
  << <<"zhu3","ji1">>, <<"c","h","i","l","l","e","r">>, <<"bing1","shui3","ji1">> >>

is_chiller_sheet(sheet_name) == AnyIn(ChillerKeywords, Lower(sheet_name))

\* _classify_pumps with the cooling test ahead of the zone test
PumpCategoryCoolingFirst(item) ==
  LET name_str == GetText(item, KeyName)
      no_str   == Upper(GetText(item, KeyNo))
  IN  IF Contains(no_str, <<"C","W","P">>) \/ Contains(name_str, <<"leng3","que4">>)
      THEN "cool"
      ELSE IF Contains(no_str, <<"Z","P">>) \/ Contains(name_str, <<"qu1","yu4">>)
      THEN "zone"
      ELSE IF Contains(no_str, <<"C","H","P">>) \/ Contains(name_str, <<"bing1","shui3">>)
      THEN "ice"
      ELSE "other"

\* the category _classify_pumps puts one item in
PumpCategory(item) ==
  LET name_str == GetText(item, KeyName)
      no_str   == Upper(GetText(item, KeyNo))
  IN  IF Contains(no_str, <<"Z","P">>) \/ Contains(name_str, <<"qu1","yu4">>)
      THEN "zone"
      ELSE IF Contains(no_str, <<"C","W","P">>) \/ Contains(name_str, <<"leng3","que4">>)
      THEN "cool"
      ELSE IF Contains(no_str, <<"C","H","P">>) \/ Contains(name_str, <<"bing1","shui3">>)
      THEN "ice"
      ELSE "other"

\* categories[cat] of _classify_pumps
Category(items, cat) ==
  Select(items, {i \in 1..Len(items) : PumpCategory(items[i]) = cat})

\* _classify_pumps
classify_pumps(ctx, base_key, items) ==
  LET c1 == SetKey(ctx, base_key \o SuffixIce, Table(Category(items, "ice")))
      c2 == SetKey(c1, base_key \o SuffixCool, Table(Category(items, "cool")))
      c3 == SetKey(c2, base_key \o SuffixZone, Table(Category(items, "zone")))
  IN  SetKey(c3, base_key \o SuffixOther, Table(Category(items, "other")))

\* context[sheet] = items, and the pump categories of a pump sheet
WriteSheet(ctx, sheet_name, items) ==
  LET c1 == SetKey(ctx, sheet_name, Table(items))
  IN  IF is_pump_sheet(sheet_name) THEN classify_pumps(c1, sheet_name, items) ELSE c1

\* an insertion that puts a sheet behind the sheets of its own weight
RECURSIVE InsertBehindEqual(_, _)
InsertBehindEqual(x, sorted) ==
  IF sorted = <<>> THEN <<x>>
  ELSE IF get_sort_weight(x.name) < get_sort_weight(Head(sorted).name)
       THEN <<x>> \o sorted
       ELSE <<Head(sorted)>> \o InsertBehindEqual(x, Tail(sorted))

\* sheet_list.sort(key=weight): the stable sort, by insertion
RECURSIVE InsertByWeight(_, _)
InsertByWeight(x, sorted) ==
  IF sorted = <<>> THEN <<x>>
  ELSE IF get_sort_weight(x.name) <= get_sort_weight(Head(sorted).name)
       THEN <<x>> \o sorted
       ELSE <<Head(sorted)>> \o InsertByWeight(x, Tail(sorted))

RECURSIVE SortByWeight(_)
SortByWeight(sheet_list) ==
  IF sheet_list = <<>> THEN <<>>
  ELSE InsertByWeight(Head(sheet_list), SortByWeight(Tail(sheet_list)))

\* the (sheet, item) index pairs of the first loop of _apply_numbering, in order
RECURSIVE PmPositions(_, _)
PmPositions(sheet_list, s) ==
  IF s > Len(sheet_list) THEN <<>>
  ELSE [r \in 1..Len(sheet_list[s].items) |-> <<s, r>>]
       \o PmPositions(sheet_list, s + 1)

\* the second loop without the test of line 326: the items of every sheet
FmPositionsEverySheet(sheet_list, s) == PmPositions(sheet_list, s)

\* the index pairs of the second loop: the items of the chiller sheets
RECURSIVE FmPositions(_, _)
FmPositions(sheet_list, s) ==
  IF s > Len(sheet_list) THEN <<>>
  ELSE (IF is_chiller_sheet(sheet_list[s].name)
        THEN [r \in 1..Len(sheet_list[s].items) |-> <<s, r>>]
        ELSE <<>>)
       \o FmPositions(sheet_list, s + 1)

\* lines 322-323 without the increment of line 323
PmStepNoIncrement(sheet_list, c, pos) ==
  [list |-> [sheet_list EXCEPT ![pos[1]].items[pos[2]] = SetKey(@, KeyPm, PM(c.pm))],
   c    |-> c]

\* lines 322-323 on the item at pos
PmStep(sheet_list, c, pos) ==
  [list |-> [sheet_list EXCEPT ![pos[1]].items[pos[2]] = SetKey(@, KeyPm, PM(c.pm))],
   c    |-> [c EXCEPT !.pm = @ + 1]]

\* lines 328-338 with the flow-meter counter advanced by one per record
FmStepSingleIncrement(sheet_list, c, pos) ==
  LET i1 == SetKey(sheet_list[pos[1]].items[pos[2]], KeyEvapFm, FM(c.fm))
      i2 == SetKey(i1, KeyEvapTOut, T(c.t))
      i3 == SetKey(i2, KeyEvapTIn, T(c.t + 1))
      i4 == SetKey(i3, KeyCondFm, FM(c.fm + 1))
      i5 == SetKey(i4, KeyCondTOut, T(c.t + 2))
      i6 == SetKey(i5, KeyCondTIn, T(c.t + 3))
  IN  [list |-> [sheet_list EXCEPT ![pos[1]].items[pos[2]] = i6],
       c    |-> [c EXCEPT !.fm = @ + 1, !.t = @ + 4]]

\* lines 328-338 on the item at pos
FmStep(sheet_list, c, pos) ==
  LET i1 == SetKey(sheet_list[pos[1]].items[pos[2]], KeyEvapFm, FM(c.fm))
      i2 == SetKey(i1, KeyEvapTOut, T(c.t))
      i3 == SetKey(i2, KeyEvapTIn, T(c.t + 1))
      i4 == SetKey(i3, KeyCondFm, FM(c.fm + 1))
      i5 == SetKey(i4, KeyCondTOut, T(c.t + 2))
      i6 == SetKey(i5, KeyCondTIn, T(c.t + 3))
  IN  [list |-> [sheet_list EXCEPT ![pos[1]].items[pos[2]] = i6],
       c    |-> [c EXCEPT !.fm = @ + 2, !.t = @ + 4]]

\* the loop of lines 281-284 from sheet s on
RECURSIVE WriteGroupFrom(_, _, _)
WriteGroupFrom(ctx, sheet_list, s) ==
  IF s > Len(sheet_list) THEN ctx
  ELSE WriteGroupFrom(WriteSheet(ctx, sheet_list[s].name, sheet_list[s].items),
                      sheet_list, s + 1)

\* the iteration without the test of line 262: a sheet with no record goes on
SheetStepKeepsEmpty(ctx, groups, sheet) ==
  LET data == parse_sheet(sheet.grid)
  IN  IF sheet.name = VarSheetName
      THEN [ctx |-> ctx, groups |-> groups]
      ELSE IF Contains(sheet.name, BeforeMarker)
      THEN [ctx |-> ctx,
            groups |-> [groups EXCEPT !.before =
                          Append(@, [name |-> sheet.name, items |-> data])]]
      ELSE IF Contains(sheet.name, AfterMarker)
      THEN [ctx |-> ctx,
            groups |-> [groups EXCEPT !.after =
                          Append(@, [name |-> sheet.name, items |-> data])]]
      ELSE [ctx |-> WriteSheet(ctx, sheet.name, data), groups |-> groups]

\* one iteration of the loop of _process_sheets (lines 260-272)
SheetStep(ctx, groups, sheet) ==
  LET data == parse_sheet(sheet.grid)
  IN  IF sheet.name = VarSheetName \/ data = <<>>
      THEN [ctx |-> ctx, groups |-> groups]
      ELSE IF Contains(sheet.name, BeforeMarker)
      THEN [ctx |-> ctx,
            groups |-> [groups EXCEPT !.before =
                          Append(@, [name |-> sheet.name, items |-> data])]]
      ELSE IF Contains(sheet.name, AfterMarker)
      THEN [ctx |-> ctx,
            groups |-> [groups EXCEPT !.after =
                          Append(@, [name |-> sheet.name, items |-> data])]]
      ELSE [ctx |-> WriteSheet(ctx, sheet.name, data), groups |-> groups]


(***************************************************************************)
(* The whole methods, as the composition of the steps above.               *)
(***************************************************************************)
RECURSIVE PmLoop(_, _, _)
PmLoop(sheet_list, c, i) ==
  IF i > Len(PmPositions(sheet_list, 1)) THEN [list |-> sheet_list, c |-> c]
  ELSE LET r == PmStep(sheet_list, c, PmPositions(sheet_list, 1)[i])
       IN  PmLoop(r.list, r.c, i + 1)

RECURSIVE FmLoop(_, _, _)
FmLoop(sheet_list, c, i) ==
  IF i > Len(FmPositions(sheet_list, 1)) THEN [list |-> sheet_list, c |-> c]
  ELSE LET r == FmStep(sheet_list, c, FmPositions(sheet_list, 1)[i])
       IN  FmLoop(r.list, r.c, i + 1)

\* _apply_numbering
apply_numbering(sheet_list, c) ==
  LET p == PmLoop(sheet_list, c, 1)
  IN  FmLoop(p.list, p.c, 1)

\* _process_group
process_group(ctx, c, sheet_list) ==
  LET n == apply_numbering(SortByWeight(sheet_list), c)
  IN  [ctx |-> WriteGroupFrom(ctx, n.list, 1), c |-> n.c]

NoGroups == [before |-> <<>>, after |-> <<>>]

RECURSIVE SheetLoop(_, _, _, _)
SheetLoop(ctx, groups, xlsx, i) ==
  IF i > Len(xlsx) THEN [ctx |-> ctx, groups |-> groups]
  ELSE LET r == SheetStep(ctx, groups, xlsx[i])
       IN  SheetLoop(r.ctx, r.groups, xlsx, i + 1)

\* _process_sheets
process_sheets(ctx, c, xlsx) ==
  LET s == SheetLoop(ctx, NoGroups, xlsx, 1)
      b == process_group(s.ctx, c, s.groups.before)
  IN  process_group(b.ctx, b.c, s.groups.after)

\* build() on a builder whose context is ctx and whose counters are c
build(ctx, c, xlsx) == process_sheets(load_variables(ctx, xlsx), c, xlsx)

\* ContextBuilder(excel_file).build() of _generate_report, run on its own
FreshBuild(xlsx) == build(EmptyMap, InitialCounters, xlsx).ctx

(***************************************************************************)
(* The state machine.  A request (_generate_report) constructs its own     *)
(* ContextBuilder over its upload and calls build(); requests interleave   *)
(* step by step.  build() may be called again on a builder that returned.  *)
(***************************************************************************)
VARIABLES
  xls,        \* xls[b]: the workbook of builder b, <<>> when b has no request
  quota,      \* quota[b]: how many calls of build() b's caller makes
  pc,         \* pc[b]: where builder b stands
  builds,     \* builds[b]: calls of build() so far
  context,    \* self.context of builder b
  counters,   \* self.counters, by the cell that holds them
  groups,     \* groups of _process_sheets
  sheet_list, \* sheet_list of _process_group / _apply_numbering
  cur,        \* loop positions: sheet, grp, pm, fm
  returned    \* returned[b]: the context as each build() call returned it

vars == <<xls, quota, pc, builds, context, counters, groups, sheet_list, cur, returned>>

Builders == {1, 2}

\* counters kept in one cell of the class, the same for every builder
CounterCellOfClass(b) == 1

\* where builder b keeps its counters: an attribute of the instance
CounterCell(b) == b

StartCur == [sheet |-> 1, grp |-> "before", pm |-> 1, fm |-> 1]

\* ContextBuilder.__init__ (line 383 of _generate_report)
Construct(b) ==
  /\ pc[b] = "request"
  /\ context' = [context EXCEPT ![b] = EmptyMap]
  /\ counters' = [counters EXCEPT ![CounterCell(b)] = InitialCounters]
  /\ pc' = [pc EXCEPT ![b] = "ready"]
  /\ UNCHANGED <<xls, quota, builds, groups, sheet_list, cur, returned>>

\* a call of build()
CallBuild(b) ==
  /\ pc[b] \in {"ready", "done"}
  /\ builds[b] < quota[b]
  /\ builds' = [builds EXCEPT ![b] = @ + 1]
  /\ pc' = [pc EXCEPT ![b] = "load"]
  /\ UNCHANGED <<xls, quota, context, counters, groups, sheet_list, cur, returned>>

\* _load_variables, then the entry of _process_sheets (line 257)
LoadVariables(b) ==
  /\ pc[b] = "load"
  /\ context' = [context EXCEPT ![b] = load_variables(@, xls[b])]
  /\ groups' = [groups EXCEPT ![b] = NoGroups]
  /\ cur' = [cur EXCEPT ![b] = StartCur]
  /\ pc' = [pc EXCEPT ![b] = "sheets"]
  /\ UNCHANGED <<xls, quota, builds, counters, sheet_list, returned>>

\* one iteration of the loop over sheet_names
ProcessSheet(b) ==
  /\ pc[b] = "sheets"
  /\ LET r == SheetStep(context[b], groups[b], xls[b][cur[b].sheet])
     IN  /\ context' = [context EXCEPT ![b] = r.ctx]
         /\ groups' = [groups EXCEPT ![b] = r.groups]
  /\ cur' = [cur EXCEPT ![b].sheet = @ + 1]
  /\ pc' = [pc EXCEPT ![b] = IF cur[b].sheet = Len(xls[b]) THEN "sort" ELSE "sheets"]
  /\ UNCHANGED <<xls, quota, builds, counters, sheet_list, returned>>

\* the sort of _process_group (line 278)
SortGroup(b) ==
  /\ pc[b] = "sort"
  /\ sheet_list' = [sheet_list EXCEPT ![b] = SortByWeight(groups[b][cur[b].grp])]
  /\ cur' = [cur EXCEPT ![b].pm = 1, ![b].fm = 1]
  /\ pc' = [pc EXCEPT ![b] = "number"]
  /\ UNCHANGED <<xls, quota, builds, context, counters, groups, returned>>

\* the first loop of _apply_numbering has run to its end
PmPassDone(b) == cur[b].pm > Len(PmPositions(sheet_list[b], 1))

\* the second loop of _apply_numbering has run to its end
FmPassDone(b) == cur[b].fm > Len(FmPositions(sheet_list[b], 1))

\* one iteration of the first loop of _apply_numbering
NumberPm(b) ==
  /\ pc[b] = "number"
  /\ ~PmPassDone(b)
  /\ LET r == PmStep(sheet_list[b], counters[CounterCell(b)],
                     PmPositions(sheet_list[b], 1)[cur[b].pm])
     IN  /\ sheet_list' = [sheet_list EXCEPT ![b] = r.list]
         /\ counters' = [counters EXCEPT ![CounterCell(b)] = r.c]
  /\ cur' = [cur EXCEPT ![b].pm = @ + 1]
  /\ UNCHANGED <<xls, quota, pc, builds, context, groups, returned>>

\* one iteration of the second loop of _apply_numbering, on a chiller item
NumberFm(b) ==
  /\ pc[b] = "number"
  /\ PmPassDone(b)
  /\ ~FmPassDone(b)
  /\ LET r == FmStep(sheet_list[b], counters[CounterCell(b)],
                     FmPositions(sheet_list[b], 1)[cur[b].fm])
     IN  /\ sheet_list' = [sheet_list EXCEPT ![b] = r.list]
         /\ counters' = [counters EXCEPT ![CounterCell(b)] = r.c]
  /\ cur' = [cur EXCEPT ![b].fm = @ + 1]
  /\ UNCHANGED <<xls, quota, pc, builds, context, groups, returned>>

\* the loop of lines 281-284; then the next group, or the end of _process_sheets
WriteGroup(b) ==
  /\ pc[b] = "number"
  /\ PmPassDone(b)
  /\ FmPassDone(b)
  /\ context' = [context EXCEPT ![b] = WriteGroupFrom(@, sheet_list[b], 1)]
  /\ cur' = [cur EXCEPT ![b].grp = "after"]
  /\ pc' = [pc EXCEPT ![b] = IF cur[b].grp = "before" THEN "sort" ELSE "return"]
  /\ UNCHANGED <<xls, quota, builds, counters, groups, sheet_list, returned>>

\* return self.context
BuildReturns(b) ==
  /\ pc[b] = "return"
  /\ returned' = [returned EXCEPT ![b] = Append(@, context[b])]
  /\ pc' = [pc EXCEPT ![b] = "done"]
  /\ UNCHANGED <<xls, quota, builds, context, counters, groups, sheet_list, cur>>

Next ==
  \E b \in Builders :
    \/ Construct(b)
    \/ CallBuild(b)
    \/ LoadVariables(b)
    \/ ProcessSheet(b)
    \/ SortGroup(b)
    \/ NumberPm(b)
    \/ NumberFm(b)
    \/ WriteGroup(b)
    \/ BuildReturns(b)


(***************************************************************************)
(* The workbooks the model is run on.                                      *)
(***************************************************************************)
\* 主機
TxtChiller == <<"zhu3","ji1">>

\* 水泵
TxtPump == <<"shui3","beng4">>

\* 水塔
TxtTower == <<"shui3","ta3">>

\* 冰水機
TxtIceMachine == <<"bing1","shui3","ji1">>

\* the header row 名稱 | 編號
HeaderEq == << <<"ming2","cheng1">>, <<"bian1","hao4">> >>

\* 主機A | CH-1
RowChA == << <<"zhu3","ji1","A">>, <<"C","H","-","1">> >>

\* 主機B | CH-2
RowChB == << <<"zhu3","ji1","B">>, <<"C","H","-","2">> >>

\* 冰水泵 | CHP-1
RowIce == << <<"bing1","shui3","beng4">>, <<"C","H","P","-","1">> >>

\* 冷卻水泵 | cwp-1
RowCool == << <<"leng3","que4","shui3","beng4">>, <<"c","w","p","-","1">> >>

\* 區域泵 | P-7
RowZone == << <<"qu1","yu4","beng4">>, <<"P","-","7">> >>

\* 冷卻泵 | zp-2: a zone code on a cooling name
RowZoneCool == << <<"leng3","que4","beng4">>, <<"z","p","-","2">> >>

\* 補水泵 | P-9
RowOther == << <<"bu3","shui3","beng4">>, <<"P","-","9">> >>

GridOne == <<HeaderEq, RowChA>>

GridTwo == <<HeaderEq, RowChA, RowChB>>

GridPumpsA == <<HeaderEq, RowZoneCool, RowIce>>

GridPumpsB == <<HeaderEq, RowCool, RowOther, RowZone>>

\* a sheet with no non-blank row
GridBlank == << <<NaN, NaN>> >>

\* a header row and no data row
GridHeaderOnly == <<HeaderEq>>

\* an equipment table whose rows all lack the name or the no
GridFiltered == <<HeaderEq, <<RowChA[1], NaN>>, <<NaN, RowChB[2]>> >>

Sheet(name, grid) == [name |-> name, grid |-> grid]

\* the variable sheet of the specification's end-to-end scenario
VarSheet ==
  Sheet(VarSheetName,
        << << <<"k","w","h","_","r","a","t","e">>, <<"1","2",".","5">> >>,
           << <<"m","e","_","p","o","w","e","r">>, <<"5","0","0",".","0">> >> >>)

SheetPool ==
  { Sheet(BeforeMarker \o TxtChiller, GridTwo),
    Sheet(BeforeMarker \o <<"C","h","i","l","l","e","r">>, GridOne),
    Sheet(BeforeMarker \o TxtIceMachine, GridOne),
    Sheet(BeforeMarker \o TxtPump, GridPumpsA),
    Sheet(BeforeMarker \o <<"P","u","m","p">>, GridPumpsB),
    Sheet(BeforeMarker \o TxtTower, GridOne),
    Sheet(AfterMarker \o TxtChiller, GridOne),
    Sheet(AfterMarker \o TxtPump, GridPumpsA),
    Sheet(TxtPump, GridPumpsB) }

\* sheet names of one workbook are distinct
DistinctNames(w) == \A i, j \in 1..Len(w) : i # j => w[i].name # w[j].name

\* the sequences of 1..n sheets of pool with distinct names
SheetSeqs(pool, n) ==
  {w \in UNION {[1..k -> pool] : k \in 1..n} : DistinctNames(w)}

Workbooks == {<<VarSheet>> \o w : w \in SheetSeqs(SheetPool, MaxSheets)}

\* the state before any request is served
InitWith(books1, books2, q1, q2) ==
  /\ xls \in {[b \in Builders |-> IF b = 1 THEN w1 ELSE w2] :
                w1 \in books1, w2 \in books2}
  /\ quota = [b \in Builders |-> IF b = 1 THEN q1 ELSE q2]
  /\ pc = [b \in Builders |-> IF xls[b] = <<>> THEN "off" ELSE "request"]
  /\ builds = [b \in Builders |-> 0]
  /\ context = [b \in Builders |-> EmptyMap]
  /\ counters = [b \in Builders |-> InitialCounters]
  /\ groups = [b \in Builders |-> NoGroups]
  /\ sheet_list = [b \in Builders |-> <<>>]
  /\ cur = [b \in Builders |-> StartCur]
  /\ returned = [b \in Builders |-> <<>>]

\* one request, which builds once (_generate_report)
Init == InitWith(Workbooks, {<<>>}, 1, 0)

Spec == Init /\ [][Next]_vars

\* sheets with and without records
EmptyPool ==
  { Sheet(BeforeMarker \o TxtChiller, GridTwo),
    Sheet(AfterMarker \o TxtPump, GridPumpsA),
    Sheet(TxtPump, GridPumpsB),
    Sheet(BeforeMarker \o TxtTower, GridBlank),
    Sheet(AfterMarker \o TxtPump, GridFiltered),
    Sheet(TxtPump, GridHeaderOnly) }

EmptyBooks == {<<VarSheet>> \o w : w \in SheetSeqs(EmptyPool, MaxSheets)}

\* one request over a workbook that may hold sheets without records
InitEmpty == InitWith(EmptyBooks, {<<>>}, 1, 0)

SpecEmpty == InitEmpty /\ [][Next]_vars

\* a caller that calls build() on its builder up to MaxBuilds times
RebuildPool ==
  { Sheet(BeforeMarker \o TxtChiller, GridOne),
    Sheet(BeforeMarker \o TxtPump, GridPumpsA),
    Sheet(AfterMarker \o TxtChiller, GridOne),
    Sheet(TxtPump, GridPumpsB) }

RebuildBooks == {<<VarSheet>> \o w : w \in SheetSeqs(RebuildPool, MaxSmallSheets)}

InitRebuild == InitWith(RebuildBooks, {<<>>}, MaxBuilds, 0)

SpecRebuild == InitRebuild /\ [][Next]_vars

\* the uploads of a second request served at the same time
OtherBooks ==
  { <<VarSheet, Sheet(BeforeMarker \o TxtChiller, GridTwo),
                Sheet(AfterMarker \o TxtPump, GridPumpsA)>>,
    <<VarSheet, Sheet(AfterMarker \o TxtChiller, GridOne)>>,
    <<VarSheet, Sheet(TxtPump, GridPumpsB)>> }

\* two requests, each with its own upload, each building once
InitTwo == InitWith(RebuildBooks, OtherBooks, 1, 1)

SpecTwo == InitTwo /\ [][Next]_vars

\* me_cap | inf: int(float("inf")) raises OverflowError
RowMeInf == << <<"m","e","_","c","a","p">>, <<"i","n","f">> >>

\* variable sheets with a row whose formatting raises
VarSheetFailsMidway ==
  Sheet(VarSheetName, <<VarSheet.grid[1], RowMeInf, VarSheet.grid[2]>>)

VarSheetFailsFirst ==
  Sheet(VarSheetName, <<RowMeInf, VarSheet.grid[1]>>)

VarSheetFailsLast ==
  Sheet(VarSheetName, << <<NaN, <<"7">>>>, VarSheet.grid[2], VarSheet.grid[1], RowMeInf>>)

VarSheets == {VarSheet, VarSheetFailsMidway, VarSheetFailsFirst, VarSheetFailsLast}

VarBooks ==
  {<<v>> \o w : v \in VarSheets, w \in SheetSeqs(RebuildPool, MaxSmallSheets)}

\* one request over a workbook whose variable sheet may fail to load
InitVars == InitWith(VarBooks, {<<>>}, 1, 0)

SpecVars == InitVars /\ [][Next]_vars

\* the header row 名稱 | 編號 | kWh
HeaderEqKwh == HeaderEq \o << <<"k","W","h">> >>

\* equipment headers over data whose name column is empty: pandas drops it
GridNoNameData == <<HeaderEq, <<NaN, RowChA[2]>> >>

GridNoNameDataKwh ==
  <<HeaderEqKwh, <<NaN, RowChA[2], <<"1","2","3","4",".","5">>>>,
                 <<NaN, NaN, NaN>>,
                 <<NaN, <<" ">>, NaN>>,
                 <<NaN, RowChB[2], <<"8","0","0">>>> >>

\* an equipment header over data whose no column is empty
GridNoNoData == <<HeaderEq, <<RowIce[1], NaN>>, <<RowZone[1], NaN>> >>

\* an equipment header over data with no cell at all
GridNoData == <<HeaderEq, <<NaN, NaN>> >>

ParsePool ==
  { Sheet(BeforeMarker \o TxtChiller, GridOne),
    Sheet(BeforeMarker \o TxtChiller, GridNoNameData),
    Sheet(BeforeMarker \o TxtPump, GridNoNoData),
    Sheet(AfterMarker \o TxtChiller, GridNoNameDataKwh),
    Sheet(AfterMarker \o TxtPump, GridPumpsA),
    Sheet(TxtPump, GridNoNameData),
    Sheet(TxtChiller, GridNoData),
    Sheet(TxtTower, GridNoNameDataKwh) }

ParseBooks == {<<VarSheet>> \o w : w \in SheetSeqs(ParsePool, MaxSmallSheets)}

\* one request over a workbook with equipment sheets of unresolved columns
InitParse == InitWith(ParseBooks, {<<>>}, 1, 0)

SpecParse == InitParse /\ [][Next]_vars

\* field names of variable rows: with the me_ prefix, with a keyword of the
\* 2-decimal or the 1-decimal rule, with several of them, with none
FormatKeys ==
  { <<"m","e","_","c","a","p">>,
    <<"M","E","_","R","a","t","e">>,
    <<"x","_","r","a","t","e">>,
    <<"x","_","r","a","t","e","_","y","e","a","r">>,
    <<"l","i","f","e","_","y","e","a","r">>,
    <<"c","o","u","n","t">>,
    <<"n","o","t","e","_","m","e","_","x">> }

\* raw values: numbers, an infinite value, texts, texts with a non-numeric
\* marker, a number with a group separator, an empty cell
FormatValues ==
  { <<"1","0","0">>,
    <<"1","2","3","4",".","5">>,
    <<"1","2","3","4","5","6","7",".","8","9","1">>,
    <<"0",".","1","2","5">>,
    <<"-","0",".","5">>,
    <<" ","4","2"," ">>,
    <<"i","n","f">>,
    <<"a","b","c">>,
    <<"C","H","-","1">>,
    <<"1","2","~","1","5">>,
    <<"1",",","2","3","4",".","5">>,
    <<".","5">>,
    NaN }

\* a variable sheet of one row k | v, and a chiller sheet of the baseline
\* cohort with v in its kWh column
FormatBooks ==
  { << Sheet(VarSheetName, << <<k, v>> >>),
       Sheet(BeforeMarker \o TxtChiller,
             <<HeaderEqKwh, <<RowChA[1], RowChA[2], v>> >>) >> :
      k \in FormatKeys, v \in FormatValues }

\* one request over a workbook whose cells go through the formatter
InitFormat == InitWith(FormatBooks, {<<>>}, 1, 0)

SpecFormat == InitFormat /\ [][Next]_vars

\* workbooks with the sheet 變數 at any place, and workbooks without it
FirstSheetBooks == SheetSeqs(RebuildPool \cup {VarSheet}, MaxSheets)

\* one request over a workbook that may have no sheet named 變數
InitFirstSheet == InitWith(FirstSheetBooks, {<<>>}, 1, 0)

SpecFirstSheet == InitFirstSheet /\ [][Next]_vars

\* an equipment table with a name cell of one space
GridBlankName == <<HeaderEq, << <<" ">>, RowChA[2] >>, RowChB>>

\* an equipment table with a no cell of two spaces
GridBlankNo == <<HeaderEq, RowIce, <<RowZone[1], <<" ", " ">>>> >>

\* an equipment table with the header row repeated among the data rows, and
\* rows with a missing name or a missing no
GridRepeatedHeader ==
  <<HeaderEq, RowChA, HeaderEq, <<NaN, RowChB[2]>>, <<RowChB[1], NaN>>, RowChB>>

BlankPool ==
  { Sheet(BeforeMarker \o TxtChiller, GridBlankName),
    Sheet(BeforeMarker \o TxtChiller, GridTwo),
    Sheet(BeforeMarker \o TxtPump, GridBlankNo),
    Sheet(AfterMarker \o TxtChiller, GridRepeatedHeader),
    Sheet(TxtPump, GridPumpsB) }

BlankBooks == {<<VarSheet>> \o w : w \in SheetSeqs(BlankPool, MaxSmallSheets)}

\* one request over a workbook whose equipment tables may hold blank cells
InitBlank == InitWith(BlankBooks, {<<>>}, 1, 0)

SpecBlank == InitBlank /\ [][Next]_vars

\* an equipment table with a kWh column
GridKwh ==
  <<HeaderEqKwh, RowChA \o << <<"8","0","0">> >>,
                 RowChB \o << <<"1","2","3","4",".","5">> >> >>

\* cohort sheets and standalone sheets, chiller-type and not
FramePool ==
  { Sheet(BeforeMarker \o TxtChiller, GridKwh),
    Sheet(BeforeMarker \o TxtPump, GridPumpsA),
    Sheet(AfterMarker \o TxtIceMachine, GridOne),
    Sheet(AfterMarker \o TxtTower, GridKwh),
    Sheet(TxtChiller, GridKwh),
    Sheet(TxtPump, GridPumpsB) }

FrameBooks == {<<VarSheet>> \o w : w \in SheetSeqs(FramePool, MaxSheets)}

\* one request over a workbook with cohort sheets and standalone sheets
InitFrame == InitWith(FrameBooks, {<<>>}, 1, 0)

SpecFrame == InitFrame /\ [][Next]_vars


(***************************************************************************)
(* Claims.                                                                 *)
(***************************************************************************)
Range(seq) == {seq[i] : i \in 1..Len(seq)}

\* both loops of _apply_numbering have run over the cohort in sheet_list[b]
NumberingDone(b) == pc[b] = "number" /\ PmPassDone(b) /\ FmPassDone(b)

\* the item of sheet_list at an index pair
ItemAt(list, pos) == list[pos[1]].items[pos[2]]

\* C1: in one build the counters start at 1 again for the improved cohort:
\* the first record of the first sorted improved sheet gets PM1 and, on a
\* chiller sheet, FM1 and T1, whatever the baseline cohort holds.
C1_ImprovedCohortStartsAtOne ==
  \A b \in Builders :
    (NumberingDone(b) /\ builds[b] = 1 /\ cur[b].grp = "after"
       /\ sheet_list[b] # <<>>) =>
      LET first == sheet_list[b][1]
      IN  /\ first.items[1][KeyPm] = PM(1)
          /\ is_chiller_sheet(first.name) =>
               /\ first.items[1][KeyEvapFm] = FM(1)
               /\ first.items[1][KeyEvapTOut] = T(1)

\* C2: in the baseline cohort of a first build, whose counters start at 1,
\* the i-th of the n chiller records ends with evap_fm = FM(i),
\* evap_t_out/in = T(2i-1)/T(2i), cond_fm = FM(n+i) and
\* cond_t_out/in = T(2n+2i-1)/T(2n+2i): every evaporator label is numbered
\* before any condenser label.
C2_EvaporatorPassBeforeCondenserPass ==
  \A b \in Builders :
    (NumberingDone(b) /\ builds[b] = 1 /\ cur[b].grp = "before") =>
      LET ps == FmPositions(sheet_list[b], 1)
          n  == Len(ps)
      IN  \A i \in 1..n :
            LET it == ItemAt(sheet_list[b], ps[i])
            IN  /\ it[KeyEvapFm] = FM(i)
                /\ it[KeyEvapTOut] = T(2 * i - 1)
                /\ it[KeyEvapTIn] = T(2 * i)
                /\ it[KeyCondFm] = FM(n + i)
                /\ it[KeyCondTOut] = T(2 * n + 2 * i - 1)
                /\ it[KeyCondTIn] = T(2 * n + 2 * i)

InstrumentKeys ==
  {KeyEvapFm, KeyEvapTOut, KeyEvapTIn, KeyCondFm, KeyCondTOut, KeyCondTIn}

\* the records of the cohort being numbered, in sorted sheet order and row order
CohortItems(b) ==
  [i \in 1..Len(PmPositions(sheet_list[b], 1)) |->
     ItemAt(sheet_list[b], PmPositions(sheet_list[b], 1)[i])]

\* C3: pass 1 gives every record of every sheet of the cohort a point label
\* before any flow-meter or temperature label is assigned, and along the
\* sorted cohort the pm numbers go up by exactly 1 from record to record.
C3_PointLabelsFirstAndConsecutive ==
  \A b \in Builders :
    pc[b] = "number" =>
      LET its == CohortItems(b)
      IN  /\ (\E i \in 1..Len(its) : DOMAIN its[i] \cap InstrumentKeys # {})
               => \A i \in 1..Len(its) : KeyPm \in DOMAIN its[i]
          /\ PmPassDone(b) =>
               \E base \in 0..counters[CounterCell(b)].pm :
                 \A i \in 1..Len(its) :
                   KeyPm \in DOMAIN its[i] /\ its[i][KeyPm] = PM(base + i)

\* C3 witness: a cohort of three or more records over a chiller sheet and a
\* sheet of another type, all point-labelled, pass 2 under way.
C3_Witness ==
  /\ pc[1] = "number" /\ PmPassDone(1) /\ cur[1].fm > 1
  /\ Len(CohortItems(1)) >= 3
  /\ \E i \in 1..Len(sheet_list[1]) : ~is_chiller_sheet(sheet_list[1][i].name)

\* the first rule of the Pump Sub-Classifier a record matches
FirstPumpRule(item) ==
  LET no   == Upper(GetText(item, KeyNo))
      name == GetText(item, KeyName)
      zone == Contains(no, <<"Z","P">>) \/ Contains(name, <<"qu1","yu4">>)
      cool == Contains(no, <<"C","W","P">>) \/ Contains(name, <<"leng3","que4">>)
      ice  == Contains(no, <<"C","H","P">>) \/ Contains(name, <<"bing1","shui3">>)
  IN  IF zone THEN SuffixZone
      ELSE IF cool THEN SuffixCool
      ELSE IF ice THEN SuffixIce
      ELSE SuffixOther

PumpSuffixes == {SuffixIce, SuffixCool, SuffixZone, SuffixOther}

\* the pump sheets of builder b's workbook that are in its context
WrittenPumpSheets(b) ==
  {nm \in SheetNames(xls[b]) :
     nm \in DOMAIN context[b] /\ context[b][nm].kind = "table"
     /\ (Contains(nm, <<"beng4">>) \/ Contains(Lower(nm), <<"p","u","m","p">>))}

\* C4: for every pump sheet in the context the four composite entries are
\* present and partition the sheet's records by the first matching rule in
\* the order zone, cooling, ice, other.
C4_PumpCategoriesPartition ==
  \A b \in Builders :
    pc[b] = "done" =>
      \A nm \in WrittenPumpSheets(b) :
        LET rows == context[b][nm].rows
            part(sfx) == context[b][nm \o sfx].rows
            total == Len(part(SuffixIce)) + Len(part(SuffixCool))
                     + Len(part(SuffixZone)) + Len(part(SuffixOther))
        IN  /\ \A sfx \in PumpSuffixes : (nm \o sfx) \in DOMAIN context[b]
            /\ total = Len(rows)
            /\ \A i \in 1..Len(rows) :
                 \A sfx \in PumpSuffixes :
                   rows[i] \in Range(part(sfx)) <=> sfx = FirstPumpRule(rows[i])

\* C4 witness: a built context with a pump sheet holding a record with a zone
\* code and a cooling name, and a record for the ice set.
C4_Witness ==
  /\ pc[1] = "done"
  /\ \E nm \in WrittenPumpSheets(1) :
       /\ \E i \in 1..Len(context[1][nm].rows) :
            LET r == context[1][nm].rows[i]
            IN  /\ Contains(Upper(r[KeyNo]), <<"Z","P">>)
                /\ Contains(r[KeyName], <<"leng3","que4">>)
       /\ context[1][nm \o SuffixIce].rows # <<>>
       /\ context[1][nm \o SuffixZone].rows # <<>>

\* the sort weight the specification gives a sheet name
ClaimedWeight(nm) ==
  LET low == Lower(nm)
  IN  IF Contains(low, <<"c","h","i","l","l","e","r">>) \/ Contains(low, <<"zhu3","ji1">>)
      THEN 1
      ELSE IF Contains(low, <<"p","u","m","p">>) \/ Contains(low, <<"beng4">>)
      THEN 2
      ELSE IF Contains(low, <<"t","o","w","e","r">>) \/ Contains(low, <<"shui3","ta3">>)
      THEN 3
      ELSE 4

\* the place of a sheet name in the workbook's sheet list
SheetIndex(b, nm) == CHOOSE i \in 1..Len(xls[b]) : xls[b][i].name = nm

\* C5: a sorted cohort is the cohort's sheets with non-decreasing sort
\* weights, sheets of equal weight in the order of the workbook's sheet list.
C5_StableSortByWeight ==
  \A b \in Builders :
    pc[b] = "number" =>
      LET sl == sheet_list[b]
      IN  /\ {sl[i].name : i \in 1..Len(sl)}
               = {g.name : g \in Range(groups[b][cur[b].grp])}
          /\ Len(sl) = Len(groups[b][cur[b].grp])
          /\ \A i, j \in 1..Len(sl) :
               i < j =>
                 /\ ClaimedWeight(sl[i].name) <= ClaimedWeight(sl[j].name)
                 /\ ClaimedWeight(sl[i].name) = ClaimedWeight(sl[j].name)
                      => SheetIndex(b, sl[i].name) < SheetIndex(b, sl[j].name)

\* C5 witness: a sorted cohort of three sheets, two of equal weight, that was
\* not in weight order in the workbook.
C5_Witness ==
  /\ pc[1] = "number"
  /\ Len(sheet_list[1]) = 3
  /\ sheet_list[1] # groups[1][cur[1].grp]
  /\ \E i \in 1..2 :
       ClaimedWeight(sheet_list[1][i].name) = ClaimedWeight(sheet_list[1][i + 1].name)


\* C6: a second call of build() on the same ContextBuilder, over the same
\* unmodified workbook, returns a Report Context identical to the first one,
\* with the same pm / FM / T labels on every record.
C6_RebuildReturnsSameContext ==
  \A b \in Builders :
    Len(returned[b]) >= 2 => returned[b][2] = returned[b][1]


\* C7: when two requests with their own uploads are served, one after the
\* other or interleaved, the context a build returns is the context the same
\* build returns when it runs on its own: counters, cohort groups and
\* context are not shared between the requests.
C7_RequestsDoNotShareLabelState ==
  \A b \in Builders :
    pc[b] = "done" => returned[b] = <<FreshBuild(xls[b])>>

\* C7 witness: both requests have returned, for different uploads, and each
\* has numbered records of a cohort.
C7_Witness ==
  /\ pc[1] = "done" /\ pc[2] = "done"
  /\ xls[1] # xls[2]
  /\ \A b \in Builders : counters[CounterCell(b)].pm > 1
  /\ \E b \in Builders : counters[CounterCell(b)].fm > 1


\* the sheets of builder b's workbook whose extraction yields no record
EmptySheets(b) ==
  {i \in 1..Len(xls[b]) :
     xls[b][i].name # VarSheetName /\ parse_sheet(xls[b][i].grid) = <<>>}

\* the workbook of builder b with those sheets taken out
WithoutEmptySheets(b) == Select(xls[b], (1..Len(xls[b])) \ EmptySheets(b))

\* C8: a sheet whose extraction yields no record is in no cohort at any time,
\* and after build neither its name nor any of its composite keys is a key
\* of the context, and the context with every label in it is the one built
\* from the workbook without that sheet.
C8_EmptySheetExcluded ==
  \A b \in Builders :
    \A i \in EmptySheets(b) :
      LET nm == xls[b][i].name
      IN  /\ \A g \in Range(groups[b].before) \cup Range(groups[b].after)
                      \cup Range(sheet_list[b]) : g.name # nm
          /\ pc[b] = "done" =>
               /\ nm \notin DOMAIN context[b]
               /\ \A sfx \in PumpSuffixes : (nm \o sfx) \notin DOMAIN context[b]
               /\ context[b] = FreshBuild(WithoutEmptySheets(b))

\* C8 witness: a built workbook with a blank sheet, a pump sheet of the
\* improved cohort whose rows were all filtered out, and a cohort sheet with
\* records.
C8_Witness ==
  /\ pc[1] = "done"
  /\ \E i, j \in EmptySheets(1) :
       /\ xls[1][i].grid = GridBlank
       /\ xls[1][j].grid = GridFiltered
       /\ is_pump_sheet(xls[1][j].name)
       /\ Contains(xls[1][j].name, AfterMarker)
  /\ counters[CounterCell(1)].pm > 1


CutAtFailure(xlsx) ==
  LET df_var == VariableSheet(xlsx).grid
      k      == Least(FailingRows(df_var))
  IN  [i \in 1..Len(xlsx) |->
         IF xlsx[i] = VariableSheet(xlsx)
         THEN Sheet(xlsx[i].name, SubSeq(df_var, 1, k - 1))
         ELSE xlsx[i]]

\* the keys of the variable rows from the first failing row on
KeysFromFailure(xlsx) ==
  LET df_var == VariableSheet(xlsx).grid
  IN  {Strip(df_var[i][1]) : i \in Least(FailingRows(df_var))..Len(df_var)}

EquipmentFrame(grid) ==
  ReadFrame(grid, find_header_row(SubSeq(grid, 1,
              IF Len(grid) < HeaderScanRows THEN Len(grid) ELSE HeaderScanRows)).row)

\* the sheets of builder b with an equipment header whose name column or
\* no column is not among the remaining columns
UnresolvedSheets(b) ==
  {i \in 1..Len(xls[b]) :
     /\ xls[b][i].name # VarSheetName
     /\ find_header_row(SubSeq(xls[b][i].grid, 1,
          IF Len(xls[b][i].grid) < HeaderScanRows
          THEN Len(xls[b][i].grid) ELSE HeaderScanRows)).type = "equipment"
     /\ LET cols == EquipmentFrame(xls[b][i].grid).cols
            role(markers) ==
              \E k \in 1..Len(cols) : AnyIn(LowerAll(markers), Lower(cols[k].name))
        IN  ~(role(TARGET_NAMES) /\ role(TARGET_NOS))}

RowsWithData(df) ==
  LET cells(r) == [k \in 1..Len(df.cols) |-> df.rows[r][df.cols[k].at]]
  IN  Select(df.rows,
             {r \in 1..Len(df.rows) :
                /\ \E k \in 1..Len(df.cols) : ~IsNa(cells(r)[k])
                /\ \E k \in 1..Len(df.cols) :
                     IsNa(cells(r)[k]) \/ Strip(cells(r)[k]) # <<>>})

Loaded(b) == pc[b] \in {"sheets", "sort", "number", "return", "done"}

\* the rows of builder b's variable sheet with a key
KeyedRows(b) ==
  LET df_var == VariableSheet(xls[b]).grid
  IN  {i \in 1..Len(df_var) : ~IsNa(df_var[i][1])}

VarKey(b, i) == Strip(VariableSheet(xls[b]).grid[i][1])

VarVal(b, i) == VariableSheet(xls[b]).grid[i][2]

\* C11: the formatter never raises.  Every keyed variable row has its
\* formatted text in the context, the cleaned text itself when the value
\* does not parse as a number; every non-empty cell of a kWh column is in
\* its record, as the cleaned text itself when it does not parse.
C11_FormatterNeverRaises ==
  \A b \in Builders :
    /\ Loaded(b) =>
         \A i \in KeyedRows(b) :
           LET s == clean_text(VarVal(b, i))
           IN  /\ VarKey(b, i) \in DOMAIN context[b]
               /\ context[b][VarKey(b, i)].kind = "scalar"
               /\ ~ParseFloat(s).ok => context[b][VarKey(b, i)].text = s
    /\ pc[b] = "done" =>
         \A i \in 1..Len(xls[b]) :
           (xls[b][i].grid[1] = HeaderEqKwh /\ ~IsNa(xls[b][i].grid[2][3])) =>
             LET s   == clean_text(xls[b][i].grid[2][3])
                 rec == context[b][xls[b][i].name].rows[1]
             IN  /\ HeaderEqKwh[3] \in DOMAIN rec
                 /\ ~ParseFloat(RemoveChar(s, ",")).ok => rec[HeaderEqKwh[3]] = s

\* the number of the first rule whose test matches the lowercased field name
ClaimedRule(key_name) ==
  LET low == Lower(key_name)
  IN  IF StartsWith(low, <<"m","e","_">>) THEN 1
      ELSE IF AnyIn(Decimal2Keywords, low) THEN 2
      ELSE IF AnyIn(Decimal1Keywords, low) THEN 3
      ELSE 4

\* the digits of a text behind its first point
FractionDigits(txt) ==
  LET points == {i \in 1..Len(txt) : txt[i] = "."}
  IN  IF points = {} THEN <<>> ELSE SubSeq(txt, Least(points) + 1, Len(txt))

\* the variable rows of builder b are formatted by the first matching rule;
\* with finite_only, infinite values are left aside
RuleOrderHolds(b, finite_only) ==
  Loaded(b) =>
    \A i \in KeyedRows(b) :
      LET s   == clean_text(VarVal(b, i))
          x   == ParseFloat(s)
          key == VarKey(b, i)
          r   == ClaimedRule(key)
      IN  IF AnyIn(NonNumericMarkers, s)
          THEN key \in DOMAIN context[b] /\ context[b][key].text = s
          ELSE (s # <<>> /\ x.ok /\ ~(finite_only /\ x.inf)) =>
                 /\ key \in DOMAIN context[b]
                 /\ LET out == context[b][key].text
                    IN  /\ r = 1 => FractionDigits(out) = FractionDigits(s)
                        /\ r = 2 => /\ Len(FractionDigits(out)) = 2
                                    /\ out = FormatFixed(x, 2)
                        /\ r = 3 => /\ Len(FractionDigits(out)) = 1
                                    /\ out = FormatFixed(x, 1)
                        /\ r = 4 => /\ FractionDigits(out) = <<>>
                                    /\ out = FormatFixed(x, 0)

\* C12: a numerically parsed variable value is formatted by the first rule,
\* in the order me_ prefix, 2-decimal keyword, 1-decimal keyword, default,
\* that matches the lowercased field name: the input's decimal digits are
\* kept, or the result has exactly 2, 1 or 0 fractional digits; a value with
\* a non-numeric marker is returned unchanged.
C12_FirstMatchingRuleFormats == \A b \in Builders : RuleOrderHolds(b, FALSE)

\* the same for finite values only
RuleOrderOnFiniteValues == \A b \in Builders : RuleOrderHolds(b, TRUE)

\* the names of the sheets in the cohort lists of builder b
GroupedNames(b) ==
  {groups[b].before[i].name : i \in 1..Len(groups[b].before)}
    \cup {groups[b].after[i].name : i \in 1..Len(groups[b].after)}
    \cup {sheet_list[b][i].name : i \in 1..Len(sheet_list[b])}

\* the sheet _load_variables reads is parsed as a table, too
VariableSheetIsTable(b) ==
  LET v == VariableSheet(xls[b]).name
  IN  \/ v \in GroupedNames(b)
      \/ v \in DOMAIN context[b] /\ context[b][v].kind = "table"

(***************************************************************************)
(* C13: the variable sheet (變數 if the workbook has it, else the first    *)
(* sheet) is a source of scalars only: its name is never a context key     *)
(* holding records, and it never joins a cohort or gets labels.            *)
(***************************************************************************)
C13_VariableSheetOnlyScalars ==
  \A b \in Builders : Loaded(b) => ~VariableSheetIsTable(b)

\* the same for the workbooks that have a sheet named 變數
VariableSheetByNameOnlyScalars ==
  \A b \in Builders :
    Loaded(b) /\ VarSheetName \in SheetNames(xls[b]) => ~VariableSheetIsTable(b)

\* the sheets of builder b read as equipment tables: an equipment header
\* whose name column and no column are both resolved
ResolvedSheets(b) ==
  {i \in 1..Len(xls[b]) :
     /\ xls[b][i].name # VarSheetName
     /\ find_header_row(SubSeq(xls[b][i].grid, 1,
          IF Len(xls[b][i].grid) < HeaderScanRows
          THEN Len(xls[b][i].grid) ELSE HeaderScanRows)).type = "equipment"
     /\ i \notin UnresolvedSheets(b)}

\* the data rows the claim keeps: name and no neither missing, empty nor
\* whitespace-only, and no header-like marker in the name
RowsWithNameAndNo(df) ==
  LET col_map == ColMap(df)
      nm(r)   == Cell(df, df.rows[r], col_map.name)
      no(r)   == Cell(df, df.rows[r], col_map.no)
  IN  Select(df.rows,
             {r \in 1..Len(df.rows) :
                /\ NonBlankCell(nm(r))
                /\ NonBlankCell(no(r))
                /\ ~AnyIn(HeaderLikeMarkers, Lower(nm(r)))})

\* the records the built context holds for sheet i of builder b
RecordsOf(b, i) ==
  IF xls[b][i].name \in DOMAIN context[b]
  THEN context[b][xls[b][i].name].rows ELSE <<>>

\* whether sheet i of builder b has a whitespace-only cell
HasSpaceCell(b, i) ==
  LET grid == xls[b][i].grid
  IN  \E r \in 1..Len(grid) : \E k \in 1..Len(grid[r]) :
        ~IsNa(grid[r][k]) /\ grid[r][k] # <<>> /\ Strip(grid[r][k]) = <<>>

NameAndNoHold(b, i) ==
  LET df   == EquipmentFrame(xls[b][i].grid)
      kept == RowsWithNameAndNo(df)
      recs == RecordsOf(b, i)
  IN  /\ Len(recs) = Len(kept)
      /\ \A r \in 1..Len(recs) :
           /\ GetText(recs[r], KeyName) # <<>>
           /\ GetText(recs[r], KeyNo) # <<>>
           /\ GetText(recs[r], KeyName) = Strip(Cell(df, kept[r], ColMap(df).name))
           /\ GetText(recs[r], KeyNo) = Strip(Cell(df, kept[r], ColMap(df).no))

(***************************************************************************)
(* C14: every record of an equipment table has a non-blank name and a      *)
(* non-blank no: the rows whose name or no is missing, empty or            *)
(* whitespace-only are dropped, and so are the rows whose name holds a     *)
(* header-like marker.                                                     *)
(***************************************************************************)
C14_RecordsHaveNameAndNo ==
  \A b \in Builders :
    pc[b] = "done" => \A i \in ResolvedSheets(b) : NameAndNoHold(b, i)

\* the same for the equipment tables without a whitespace-only cell
RecordsHaveNameAndNoWithoutSpaceCells ==
  \A b \in Builders :
    pc[b] = "done" =>
      \A i \in ResolvedSheets(b) : ~HasSpaceCell(b, i) => NameAndNoHold(b, i)

\* the chiller records of the cohort in sheet_list[b], in labelling order
ChillerItems(b) ==
  [i \in 1..Len(FmPositions(sheet_list[b], 1)) |->
     ItemAt(sheet_list[b], FmPositions(sheet_list[b], 1)[i])]

FmKeys == {KeyEvapFm, KeyCondFm}

TKeys == {KeyEvapTOut, KeyEvapTIn, KeyCondTOut, KeyCondTIn}

\* the labels the chiller records of the cohort hold under the keys ks
LabelsUnder(b, ks) ==
  {ChillerItems(b)[i][k] : i \in 1..Len(ChillerItems(b)), k \in ks}

(***************************************************************************)
(* C15: once a cohort is numbered, no FM number occurs twice among the     *)
(* evap_fm and cond_fm of its records and no T number twice among the four *)
(* temperature keys; over n chiller records the FM numbers are 2n          *)
(* consecutive numbers and the T numbers 4n consecutive numbers.           *)
(***************************************************************************)
C15_InstrumentNumbersUniqueAndContiguous ==
  \A b \in Builders :
    NumberingDone(b) =>
      LET n  == Len(ChillerItems(b))
          c  == counters[CounterCell(b)]
      IN  /\ \A i \in 1..n : FmKeys \cup TKeys \subseteq DOMAIN ChillerItems(b)[i]
          /\ Cardinality(LabelsUnder(b, FmKeys)) = 2 * n
          /\ Cardinality(LabelsUnder(b, TKeys)) = 4 * n
          /\ \E base \in 0..c.fm :
                LabelsUnder(b, FmKeys) = {FM(base + j) : j \in 1..(2 * n)}
          /\ \E base \in 0..c.t :
                LabelsUnder(b, TKeys) = {T(base + j) : j \in 1..(4 * n)}

\* C15 witness: a numbered baseline cohort with three or more chiller
\* records over two or more chiller sheets.
C15_Witness ==
  /\ NumberingDone(1)
  /\ cur[1].grp = "before"
  /\ Len(ChillerItems(1)) >= 3
  /\ Cardinality({FmPositions(sheet_list[1], 1)[i][1] :
                    i \in 1..Len(FmPositions(sheet_list[1], 1))}) >= 2

\* a numbered improved cohort whose numbers go on from the baseline cohort's
C15_WitnessImproved ==
  /\ NumberingDone(1)
  /\ cur[1].grp = "after"
  /\ Len(ChillerItems(1)) >= 1
  /\ counters[CounterCell(1)].fm > 1 + 2 * Len(ChillerItems(1))

\* a sheet name with a cohort marker
InCohort(nm) == Contains(nm, BeforeMarker) \/ Contains(nm, AfterMarker)

\* a sheet name with a chiller keyword of the labeler: 主機, chiller, 冰水機
ChillerNamed(nm) ==
  \/ Contains(Lower(nm), <<"zhu3","ji1">>)
  \/ Contains(Lower(nm), <<"c","h","i","l","l","e","r">>)
  \/ Contains(Lower(nm), <<"bing1","shui3","ji1">>)

\* the keys the labeler is to write on the records of a sheet
LabelKeysOf(nm) ==
  (IF InCohort(nm) THEN {KeyPm} ELSE {})
    \cup (IF InCohort(nm) /\ ChillerNamed(nm) THEN InstrumentKeys ELSE {})

(***************************************************************************)
(* C16: the labeler writes only the seven label keys.  A record gets pm    *)
(* exactly when its sheet is in a cohort, and the six evap_ and cond_ keys *)
(* exactly when its sheet is in a cohort and has a chiller keyword in its  *)
(* name; a standalone sheet gets none, a cohort without a chiller sheet    *)
(* gets pm only; every other field is as the parser produced it.           *)
(***************************************************************************)
C16_LabelerWritesOnlyLabelKeys ==
  \A b \in Builders :
    pc[b] = "done" =>
      \A i \in 1..Len(xls[b]) :
        LET nm   == xls[b][i].name
            data == parse_sheet(xls[b][i].grid)
            recs == RecordsOf(b, i)
        IN  (nm # VarSheetName /\ data # <<>>) =>
              /\ nm \in DOMAIN context[b]
              /\ Len(recs) = Len(data)
              /\ \A r \in 1..Len(data) :
                   /\ DOMAIN recs[r] = DOMAIN data[r] \cup LabelKeysOf(nm)
                   /\ \A k \in DOMAIN data[r] \ LabelKeysOf(nm) :
                        recs[r][k] = data[r][k]

\* C16 witness: a built context with a standalone chiller sheet without any
\* label, a chiller sheet of a cohort with the seven labels, and a pump
\* sheet of the same cohort with pm only.
C16_Witness ==
  /\ pc[1] = "done"
  /\ \E i, j, k \in 1..Len(xls[1]) :
       /\ ~InCohort(xls[1][i].name) /\ ChillerNamed(xls[1][i].name)
       /\ RecordsOf(1, i) # <<>>
       /\ DOMAIN RecordsOf(1, i)[1] \cap (InstrumentKeys \cup {KeyPm}) = {}
       /\ InCohort(xls[1][j].name) /\ ChillerNamed(xls[1][j].name)
       /\ RecordsOf(1, j) # <<>>
       /\ InstrumentKeys \cup {KeyPm} \subseteq DOMAIN RecordsOf(1, j)[1]
       /\ InCohort(xls[1][k].name) /\ ~ChillerNamed(xls[1][k].name)
       /\ RecordsOf(1, k) # <<>>
       /\ DOMAIN RecordsOf(1, k)[1] \cap (InstrumentKeys \cup {KeyPm}) = {KeyPm}

\* a built context whose improved cohort has no chiller sheet: pm only
C16_WitnessNoChillerInCohort ==
  /\ pc[1] = "done"
  /\ \E i \in 1..Len(xls[1]) :
       /\ Contains(xls[1][i].name, AfterMarker)
       /\ RecordsOf(1, i) # <<>>
       /\ DOMAIN RecordsOf(1, i)[1] \cap (InstrumentKeys \cup {KeyPm}) = {KeyPm}
  /\ \A i \in 1..Len(xls[1]) :
       Contains(xls[1][i].name, AfterMarker) => ~ChillerNamed(xls[1][i].name)

\* in the sorted cohort of builder b, the sheets named in chillers have
\* weight 1 and stand before every other sheet, and once the cohort is
\* point-labelled their records hold the lowest pm numbers
ChillerSheetsFirst(b, chillers) ==
  LET sl  == sheet_list[b]
      chiller(nm) == nm \in chillers
      ps  == PmPositions(sl, 1)
      its == CohortItems(b)
  IN  /\ \A i \in 1..Len(sl) :
           chiller(sl[i].name) =>
             /\ get_sort_weight(sl[i].name) = 1
             /\ \A j \in 1..Len(sl) : ~chiller(sl[j].name) => i < j
      /\ PmPassDone(b) =>
           \E base \in 0..counters[CounterCell(b)].pm :
             /\ \A i \in 1..Len(its) : its[i][KeyPm] = PM(base + i)
             /\ \A i, j \in 1..Len(its) :
                  (chiller(sl[ps[i][1]].name) /\ ~chiller(sl[ps[j][1]].name))
                    => i < j

\* a sheet name with 主機 or chiller, the markers of weight 1
ChillerWeightNamed(nm) ==
  \/ Contains(Lower(nm), <<"zhu3","ji1">>)
  \/ Contains(Lower(nm), <<"c","h","i","l","l","e","r">>)

(***************************************************************************)
(* C17: sorter and labeler agree on what a chiller sheet is: every sheet   *)
(* of a cohort whose name holds 主機, chiller or 冰水機 has sort weight 1  *)
(* and is sorted before the pump, tower and other sheets, so that the      *)
(* chiller records hold the lowest pm numbers of the cohort.               *)
(***************************************************************************)
C17_SorterAndLabelerAgree ==
  \A b \in Builders : pc[b] = "number" =>
      ChillerSheetsFirst(b, {nm \in SheetNames(xls[b]) : ChillerNamed(nm)})

\* the same for the sheets named with 主機 or chiller only
SorterAndLabelerAgreeOnWeightMarkers ==
  \A b \in Builders : pc[b] = "number" =>
      ChillerSheetsFirst(b, {nm \in SheetNames(xls[b]) : ChillerWeightNamed(nm)})

=============================================================================
